---------------------------- MODULE Spec2Model ----------------------------
(***************************************************************************)
(* Model of analyze_data.py: the script lists the entries of the directory *)
(* 'data', and for each entry prints a banner and a header, opens the      *)
(* entry as a workbook, prints its sheet names, loads the sheet at index   *)
(* 0, prints its size, its columns, its first five rows and its column     *)
(* types; any Exception raised inside the per-file try block is printed    *)
(* as one error line.  After the loop a closing banner and a completion    *)
(* message are printed.                                                    *)
(*                                                                         *)
(* The standard output is the sequence `out`, one element per print call.  *)
(* print is total (the terminal accepts every string), and rendering a     *)
(* frame that was loaded (len, columns, head, to_string, dtypes) does not  *)
(* raise: the two calls of the try block that can raise are pd.ExcelFile   *)
(* and pd.read_excel.                                                      *)
(***************************************************************************)
EXTENDS Integers, Sequences, FiniteSets

(***************************************************************************)
(* Bounds of the model and constants of the program.                       *)
(***************************************************************************)
MaxFiles == 2

MaxRows == 6

MaxCols == 2

\* df.head(5)
HeadN == 5

\* exit status of a run that ends by an uncaught exception
ExitFatal == 1

\* exit status of a run that reaches the end of the script
ExitOk == 0

\* the run has not ended
Running == -1

\* value of i before the for statement binds it
Unbound == -1

VARIABLES dirExists, disk, pc, files, cursor, i, f, filepath, xl, df, e, out, exit

vars == <<dirExists, disk, pc, files, cursor, i, f, filepath, xl, df, e, out, exit>>

(***************************************************************************)
(* The directory on disk.  Entry names come in the enumeration order of    *)
(* the storage, which is not sorted.  A workbook is unreadable (opening    *)
(* raises), or holds a sequence of sheets; a sheet holds its cells row by  *)
(* row, the first row being the header, and may be damaged (its load       *)
(* raises).                                                                *)
(***************************************************************************)
data_dir == "data"

EntryNames == <<"b.xlsx", "a.xls", "d.xlsx", "c.xls">>

HeaderNames == <<"B", "A", "D", "C">>

Digits == <<"1", "2", "3", "4", "5", "6", "7", "8", "9">>

Min(a, b) == IF a < b THEN a ELSE b

Range(s) == {s[k] : k \in DOMAIN s}

RowCounts == {0} \cup ((HeadN - 1)..MaxRows)

\* cell of data row j (of n) in column k: odd columns hold numbers, in
\* descending order, even columns hold text
CellAt(j, k, n) == IF k % 2 = 1 THEN Digits[n - j + 1] ELSE "t"

MkSheet(nm, c, n) ==
    [name |-> nm, damaged |-> FALSE,
     cells |-> <<SubSeq(HeaderNames, 1, c)>> \o
               [j \in 1..n |-> [k \in 1..c |-> CellAt(j, k, n)]]]

BlankSheet(nm) == [name |-> nm, damaged |-> FALSE, cells |-> <<>>]

DamagedSheet(nm) == [name |-> nm, damaged |-> TRUE, cells |-> <<>>]

FirstSheets ==
    {BlankSheet("Sheet1")} \cup
    {MkSheet("Sheet1", c, n) : c \in 1..MaxCols, n \in RowCounts}

Workbooks ==
    {[readable |-> FALSE, sheets |-> <<>>]} \cup
    {[readable |-> TRUE, sheets |-> <<>>]} \cup
    {[readable |-> TRUE, sheets |-> <<DamagedSheet("Sheet1")>>]} \cup
    {[readable |-> TRUE, sheets |-> <<s>>] : s \in FirstSheets} \cup
    {[readable |-> TRUE,
      sheets |-> <<MkSheet("Zeta", 1, HeadN + 1), MkSheet("Sheet1", 2, 1)>>]}

Directories ==
    UNION {[Range(SubSeq(EntryNames, 1, n)) -> Workbooks] : n \in 0..MaxFiles}

(***************************************************************************)
(* Library calls.                                                          *)
(***************************************************************************)
\* os.listdir: the names of the entries, in enumeration order
IsEntry(d, nm) == nm \in DOMAIN d

listdir(d) == SelectSeq(EntryNames, LAMBDA nm : IsEntry(d, nm))

\* os.path.join(data_dir, f)
join(dir, nm) == [dir |-> dir, name |-> nm]

\* pd.ExcelFile(filepath): the handle, or the message of the exception
ExcelFile(path) ==
    LET wb == disk[path.name] IN
    IF wb.readable
      THEN [ok |-> TRUE, msg |-> "",
            sheet_names |-> [k \in 1..Len(wb.sheets) |-> wb.sheets[k].name]]
      ELSE [ok |-> FALSE, msg |-> "Excel file format cannot be determined",
            sheet_names |-> <<>>]

\* header=None: the first row is kept among the data rows
ParseSheet_keepHeader(sh) ==
    IF sh.cells = <<>>
      THEN [columns |-> <<>>, rows |-> <<>>]
      ELSE [columns |-> Head(sh.cells), rows |-> sh.cells]

\* the frame of a sheet: the first row names the columns, the rest are the
\* data rows; a sheet without cells gives the empty frame
ParseSheet(sh) ==
    IF sh.cells = <<>>
      THEN [columns |-> <<>>, rows |-> <<>>]
      ELSE [columns |-> Head(sh.cells), rows |-> Tail(sh.cells)]

\* pd.read_excel(filepath, sheet_name=idx), idx counted from 0
read_excel(path, idx) ==
    LET wb == disk[path.name]
        none == [columns |-> <<>>, rows |-> <<>>] IN
    IF ~wb.readable
      THEN [ok |-> FALSE, msg |-> "Excel file format cannot be determined",
            frame |-> none]
    ELSE IF idx + 1 > Len(wb.sheets)
      THEN [ok |-> FALSE, msg |-> "Worksheet index 0 is invalid, 0 worksheets found", frame |-> none]
    ELSE IF wb.sheets[idx + 1].damaged
      THEN [ok |-> FALSE, msg |-> "File is not a zip file", frame |-> none]
    ELSE [ok |-> TRUE, msg |-> "", frame |-> ParseSheet(wb.sheets[idx + 1])]

\* df.tail(n) in place of df.head(n)
head_tail(frame, n) ==
    SubSeq(frame.rows, Len(frame.rows) - Min(n, Len(frame.rows)) + 1, Len(frame.rows))

\* df.head(n)
head(frame, n) == SubSeq(frame.rows, 1, Min(n, Len(frame.rows)))

\* the inferred type of column k
dtype(frame, k) ==
    IF frame.rows # <<>> /\ \A j \in DOMAIN frame.rows : frame.rows[j][k] \in Range(Digits)
      THEN "int64"
      ELSE "object"

\* df.dtypes: one (column, type) pair per column
dtypes(frame) == [k \in DOMAIN frame.columns |-> <<frame.columns[k], dtype(frame, k)>>]

(***************************************************************************)
(* The printed lines, one per print call.                                  *)
(***************************************************************************)
Line(kind, nums, strs, rows) == [kind |-> kind, nums |-> nums, strs |-> strs, rows |-> rows]

\* print(f"\n{'='*60}") and print("\n" + "="*60): the same text
OpenBanner == Line("nlbanner", <<>>, <<>>, <<>>)

\* print('='*60)
Banner == Line("banner", <<>>, <<>>, <<>>)

\* the header prints i in place of i+1
HeaderLine_zeroBased(idx, nm) == Line("header", <<idx>>, <<nm>>, <<>>)

HeaderLine(idx, nm) == Line("header", <<idx + 1>>, <<nm>>, <<>>)

SheetsLine(names) == Line("sheets", <<>>, names, <<>>)

SizeLine(frame) == Line("size", <<Len(frame.rows), Len(frame.columns)>>, <<>>, <<>>)

ColumnsLabel == Line("columns", <<>>, <<>>, <<>>)

ColumnLine(col) == Line("col", <<>>, <<col>>, <<>>)

PreviewLabel == Line("first5", <<>>, <<>>, <<>>)

PreviewLine(frame) == Line("preview", <<>>, frame.columns, head(frame, HeadN))

DtypesLabel == Line("datatypes", <<>>, <<>>, <<>>)

DtypesLine(frame) == Line("dtypes", <<>>, <<>>, dtypes(frame))

ErrorLine(msg) == Line("error", <<>>, <<msg>>, <<>>)

CompleteLine == Line("complete", <<>>, <<>>, <<>>)

(***************************************************************************)
(* The script.                                                             *)
(***************************************************************************)
NoHandle == [opened |-> FALSE, sheet_names |-> <<>>]

NoFrame == [loaded |-> FALSE, columns |-> <<>>, rows |-> <<>>]

Init ==
    /\ dirExists \in BOOLEAN
    /\ disk \in (IF dirExists THEN Directories ELSE {<<>>})
    /\ pc = "list"
    /\ files = <<>>
    /\ cursor = 0
    /\ i = Unbound
    /\ f = ""
    /\ filepath = join("", "")
    /\ xl = NoHandle
    /\ df = NoFrame
    /\ e = ""
    /\ out = <<>>
    /\ exit = Running

\* the listing guarded: a missing directory is taken as an empty one
ListDir_swallow ==
    /\ pc = "list"
    /\ files' = (IF dirExists THEN listdir(disk) ELSE <<>>)
    /\ pc' = "loop"
    /\ UNCHANGED <<dirExists, disk, cursor, i, f, filepath, xl, df, e, out, exit>>

\* files = os.listdir(data_dir): outside any try
ListDir ==
    /\ pc = "list"
    /\ IF dirExists
         THEN /\ files' = listdir(disk)
              /\ pc' = "loop"
              /\ exit' = exit
         ELSE /\ files' = files
              /\ pc' = "fatal"
              /\ exit' = ExitFatal
    /\ UNCHANGED <<dirExists, disk, cursor, i, f, filepath, xl, df, e, out>>

\* for i, f in enumerate(files): the next entry and its banner and header,
\* or the end of the loop
LoopHead ==
    /\ pc = "loop"
    /\ IF cursor < Len(files)
         THEN /\ i' = cursor
              /\ f' = files[cursor + 1]
              /\ cursor' = cursor + 1
              /\ out' = out \o <<OpenBanner, HeaderLine(cursor, files[cursor + 1]), Banner>>
              /\ pc' = "open"
         ELSE /\ pc' = "closing"
              /\ UNCHANGED <<i, f, cursor, out>>
    /\ UNCHANGED <<dirExists, disk, files, filepath, xl, df, e, exit>>

\* filepath = os.path.join(data_dir, f); xl = pd.ExcelFile(filepath);
\* print the sheet names
OpenWorkbook ==
    /\ pc = "open"
    /\ filepath' = join(data_dir, f)
    /\ LET r == ExcelFile(join(data_dir, f)) IN
       IF r.ok
         THEN /\ xl' = [opened |-> TRUE, sheet_names |-> r.sheet_names]
              /\ out' = Append(out, SheetsLine(r.sheet_names))
              /\ e' = e
              /\ pc' = "read"
         ELSE /\ e' = r.msg
              /\ pc' = "except"
              /\ UNCHANGED <<xl, out>>
    /\ UNCHANGED <<dirExists, disk, files, cursor, i, f, df, exit>>

\* the load guarded by a bare "except: pass": a failed load leaves the frame
\* of an earlier file in df, and the report goes on with it
ReadFirstSheet_stale ==
    /\ pc = "read"
    /\ LET r == read_excel(filepath, 0) IN
       IF r.ok
         THEN /\ df' = [loaded |-> TRUE, columns |-> r.frame.columns, rows |-> r.frame.rows]
              /\ out' = Append(out, SizeLine(r.frame))
              /\ e' = e
              /\ pc' = "columns"
         ELSE IF df.loaded
           THEN /\ out' = Append(out, SizeLine(df))
                /\ pc' = "columns"
                /\ UNCHANGED <<df, e>>
           ELSE /\ e' = r.msg
                /\ pc' = "except"
                /\ UNCHANGED <<df, out>>
    /\ UNCHANGED <<dirExists, disk, files, cursor, i, f, filepath, xl, exit>>

\* the load guarded on its own: its error is printed and the report goes on
ReadFirstSheet_reportAndContinue ==
    /\ pc = "read"
    /\ LET r == read_excel(filepath, 0) IN
       IF r.ok
         THEN /\ df' = [loaded |-> TRUE, columns |-> r.frame.columns, rows |-> r.frame.rows]
              /\ out' = Append(out, SizeLine(r.frame))
              /\ e' = e
              /\ pc' = "columns"
         ELSE /\ e' = r.msg
              /\ out' = Append(out, ErrorLine(r.msg))
              /\ pc' = "columns"
              /\ df' = df
    /\ UNCHANGED <<dirExists, disk, files, cursor, i, f, filepath, xl, exit>>

\* df = pd.read_excel(filepath, sheet_name=0); print the size
ReadFirstSheet ==
    /\ pc = "read"
    /\ LET r == read_excel(filepath, 0) IN
       IF r.ok
         THEN /\ df' = [loaded |-> TRUE, columns |-> r.frame.columns, rows |-> r.frame.rows]
              /\ out' = Append(out, SizeLine(r.frame))
              /\ e' = e
              /\ pc' = "columns"
         ELSE /\ e' = r.msg
              /\ pc' = "except"
              /\ UNCHANGED <<df, out>>
    /\ UNCHANGED <<dirExists, disk, files, cursor, i, f, filepath, xl, exit>>

\* print the label, then for col in df.columns: print the column
PrintColumns ==
    /\ pc = "columns"
    /\ out' = out \o <<ColumnsLabel>> \o [k \in DOMAIN df.columns |-> ColumnLine(df.columns[k])]
    /\ pc' = "preview"
    /\ UNCHANGED <<dirExists, disk, files, cursor, i, f, filepath, xl, df, e, exit>>

\* print the label and df.head(5).to_string()
PrintPreview ==
    /\ pc = "preview"
    /\ out' = out \o <<PreviewLabel, PreviewLine(df)>>
    /\ pc' = "dtypes"
    /\ UNCHANGED <<dirExists, disk, files, cursor, i, f, filepath, xl, df, e, exit>>

\* print the label and df.dtypes.to_string(); the iteration ends
PrintDtypes ==
    /\ pc = "dtypes"
    /\ out' = out \o <<DtypesLabel, DtypesLine(df)>>
    /\ pc' = "loop"
    /\ UNCHANGED <<dirExists, disk, files, cursor, i, f, filepath, xl, df, e, exit>>

\* the handler leaves the loop (break) after printing
ExceptHandler_break ==
    /\ pc = "except"
    /\ out' = Append(out, ErrorLine(e))
    /\ pc' = "closing"
    /\ UNCHANGED <<dirExists, disk, files, cursor, i, f, filepath, xl, df, e, exit>>

\* the handler raises again (raise) after printing: the run ends fatally
ExceptHandler_reraise ==
    /\ pc = "except"
    /\ out' = Append(out, ErrorLine(e))
    /\ pc' = "fatal"
    /\ exit' = ExitFatal
    /\ UNCHANGED <<dirExists, disk, files, cursor, i, f, filepath, xl, df, e>>

\* except Exception as e: print the message; the iteration ends
ExceptHandler ==
    /\ pc = "except"
    /\ out' = Append(out, ErrorLine(e))
    /\ pc' = "loop"
    /\ UNCHANGED <<dirExists, disk, files, cursor, i, f, filepath, xl, df, e, exit>>

\* the closing banner left out
Closing_noBanner ==
    /\ pc = "closing"
    /\ out' = Append(out, CompleteLine)
    /\ pc' = "done"
    /\ exit' = ExitOk
    /\ UNCHANGED <<dirExists, disk, files, cursor, i, f, filepath, xl, df, e>>

\* the closing banner and the completion message; the script ends
Closing ==
    /\ pc = "closing"
    /\ out' = out \o <<OpenBanner, CompleteLine>>
    /\ pc' = "done"
    /\ exit' = ExitOk
    /\ UNCHANGED <<dirExists, disk, files, cursor, i, f, filepath, xl, df, e>>

Next ==
    \/ ListDir
    \/ LoopHead
    \/ OpenWorkbook
    \/ ReadFirstSheet
    \/ PrintColumns
    \/ PrintPreview
    \/ PrintDtypes
    \/ ExceptHandler
    \/ Closing

Spec == Init /\ [][Next]_vars

\* the interpreter runs the script to its end: a step that can be taken is taken
FairSpec == Spec /\ WF_vars(Next)

(***************************************************************************)
(* Reading the output: the blocks of the files, and the source sheets.     *)
(***************************************************************************)
Kinds(ls) == [j \in DOMAIN ls |-> ls[j].kind]

HasKind(ls, kd) == \E j \in DOMAIN ls : ls[j].kind = kd

CountKind(ls, kd) == Cardinality({j \in DOMAIN ls : ls[j].kind = kd})

IsPrefix(s, t) == Len(s) <= Len(t) /\ SubSeq(t, 1, Len(s)) = s

HeaderAt == {j \in DOMAIN out : out[j].kind = "header"}

CompleteAt == {j \in DOMAIN out : out[j].kind = "complete"}

NumBlocks == Cardinality(HeaderAt)

\* the position of the k-th header line
HeaderPos(k) == CHOOSE j \in HeaderAt : Cardinality({m \in HeaderAt : m <= j}) = k

\* the last line of the k-th block: the next block's banner, or the closing
\* banner, or the end of the output comes after it
BlockEnd(k) ==
    IF k < NumBlocks THEN HeaderPos(k + 1) - 2
    ELSE IF \E j \in CompleteAt : j > HeaderPos(k)
      THEN (CHOOSE j \in CompleteAt : j > HeaderPos(k) /\ \A m \in CompleteAt : m > HeaderPos(k) => j <= m) - 2
    ELSE Len(out)

\* the lines of the k-th block after its banner, header, banner
Body(k) == SubSeq(out, HeaderPos(k) + 2, BlockEnd(k))

\* "opening" until the block shows its outcome
FileState(k) ==
    LET b == Body(k) IN
    IF HasKind(b, "error") /\ HasKind(b, "dtypes") THEN "both"
    ELSE IF HasKind(b, "error") THEN "error"
    ELSE IF HasKind(b, "dtypes") THEN "success"
    ELSE "opening"

Terminal(k) == FileState(k) \in {"success", "error"}

\* the workbook behind the k-th listed entry
WorkbookOf(k) == disk[files[k]]

\* the entry cannot be inspected: it does not open, or its sheet 0 does not load
Unloadable(wb) == ~wb.readable \/ wb.sheets = <<>> \/ wb.sheets[1].damaged

\* the header row and the data rows of a source sheet
SheetHeader(sh) == IF sh.cells = <<>> THEN <<>> ELSE sh.cells[1]

SheetData(sh) == IF sh.cells = <<>> THEN <<>> ELSE [j \in 1..(Len(sh.cells) - 1) |-> sh.cells[j + 1]]

LinesOfKind(ls, kd) == SelectSeq(ls, LAMBDA l : l.kind = kd)

(***************************************************************************)
(* C1: an error raised while opening a file or loading its first sheet is  *)
(* caught at the per-file boundary: it never ends the run (the only fatal  *)
(* end is a failed directory listing), and once the run is done every      *)
(* entry listed after a failing one has its block with its own outcome.    *)
(***************************************************************************)
C1_ErrorsCaughtPerFile ==
    /\ dirExists => pc # "fatal" /\ exit # ExitFatal
    /\ pc = "done" =>
         \A k \in 1..Len(files) :
            Unloadable(WorkbookOf(k)) =>
               /\ k <= NumBlocks
               /\ FileState(k) = "error"
               /\ \A m \in (k + 1)..Len(files) :
                     /\ m <= NumBlocks
                     /\ out[HeaderPos(m)].strs = <<files[m]>>
                     /\ Terminal(m)
                     /\ (~Unloadable(WorkbookOf(m)) => FileState(m) = "success")

C1_Witness ==
    /\ pc = "done"
    /\ Len(files) >= 2
    /\ Unloadable(WorkbookOf(1))
    /\ ~Unloadable(WorkbookOf(2))
    /\ NumBlocks >= 2
    /\ FileState(1) = "error"
    /\ FileState(2) = "success"

(***************************************************************************)
(* C2: the block of a file whose inspection raises holds, after its        *)
(* header lines, exactly one error line and nothing else.                  *)
(***************************************************************************)
C2_ErrorBlockIsOnlyTheErrorLine ==
    \A k \in 1..NumBlocks :
       HasKind(Body(k), "error") => Kinds(Body(k)) = <<"error">>

(***************************************************************************)
(* C3: with the base directory missing or unreadable the listing fails     *)
(* before anything is printed: the run ends fatally, with a non-zero       *)
(* status, no output at all, and no file ever started.                     *)
(***************************************************************************)
C3_MissingDirectoryIsFatal ==
    /\ ~dirExists =>
          /\ pc \in {"list", "fatal"}
          /\ out = <<>>
          /\ cursor = 0
          /\ exit # ExitOk
    /\ pc = "fatal" => exit = ExitFatal /\ exit # 0 /\ out = <<>>

C3_Witness == pc = "fatal" /\ ~dirExists /\ exit = ExitFatal

(***************************************************************************)
(* C4: the entries are processed one at a time, in listing order, each     *)
(* exactly once: the header lines printed so far are those of the first    *)
(* entries of the listing, the k-th carrying the index k and the k-th      *)
(* name; only the last block may still be opening; when the run is done    *)
(* every entry has its block; and a block that reached "success" or        *)
(* "error" never changes afterwards.                                       *)
(***************************************************************************)
C4_Order ==
    /\ NumBlocks = cursor
    /\ cursor <= Len(files)
    /\ \A k \in 1..NumBlocks :
         /\ out[HeaderPos(k)].nums = <<k>>
         /\ out[HeaderPos(k)].strs = <<files[k]>>
         /\ FileState(k) \in {"opening", "success", "error"}
         /\ (k < NumBlocks => Terminal(k))
    /\ pc \in {"loop", "closing", "done"} => \A k \in 1..NumBlocks : Terminal(k)
    /\ pc = "done" => NumBlocks = Len(files)

C4_NoRevisit ==
    /\ cursor' \in {cursor, cursor + 1}
    /\ \A k \in 1..NumBlocks :
         Terminal(k) => Body(k)' = Body(k)

C4_OneAtATimeInListingOrder == []C4_Order /\ [][C4_NoRevisit]_vars

C4_Witness ==
    /\ pc = "done"
    /\ Len(files) = 2
    /\ NumBlocks = 2
    /\ out[HeaderPos(2)].nums = <<2>>
    /\ FileState(1) = "success"
    /\ FileState(2) = "error"

(***************************************************************************)
(* C5: when the listing succeeds the run ends normally, with status 0,     *)
(* whatever the files do; the completion message is printed once, as the   *)
(* last line, right after the closing banner, after the block of the last  *)
(* listed entry, and only by the step that ends the run.                   *)
(***************************************************************************)
C5_ClosingLast ==
    /\ Cardinality(CompleteAt) <= 1
    /\ CompleteAt # {} =>
          /\ CompleteAt = {Len(out)}
          /\ Len(out) >= 2
          /\ out[Len(out) - 1].kind = "nlbanner"
          /\ NumBlocks = Len(files)
          /\ \A k \in 1..NumBlocks : Terminal(k) /\ HeaderPos(k) < Len(out) - 1
          /\ pc = "done"
    /\ CountKind(out, "nlbanner") = NumBlocks + Cardinality(CompleteAt)
    /\ pc = "done" => CompleteAt # {} /\ exit = ExitOk
    /\ exit = ExitOk => pc = "done"

C5_TerminatesNormally ==
    /\ []C5_ClosingLast
    /\ (dirExists ~> (pc = "done" /\ exit = ExitOk))

C5_Witness ==
    /\ pc = "done"
    /\ exit = ExitOk
    /\ Len(files) = 2
    /\ Unloadable(WorkbookOf(1))
    /\ Unloadable(WorkbookOf(2))
    /\ out[Len(out)].kind = "complete"

(***************************************************************************)
(* C6: for an existing, empty directory the whole output is the closing    *)
(* banner and the completion message.                                      *)
(***************************************************************************)
C6_EmptyDirectory ==
    (dirExists /\ DOMAIN disk = {}) =>
        /\ HeaderAt = {}
        /\ ~HasKind(out, "error")
        /\ (pc = "done" => Kinds(out) = <<"nlbanner", "complete">>)
        /\ (pc # "done" => out = <<>>)

C6_Witness == pc = "done" /\ dirExists /\ DOMAIN disk = {} /\ Len(out) = 2

(***************************************************************************)
(* C7: in the block of a file, the column lines name the header cells of   *)
(* the first sheet of the source, in the source's order, and the preview   *)
(* holds the first min(5, row count) data rows of that sheet, in order.    *)
(***************************************************************************)
C7_ColumnsAndPreviewInSourceOrder ==
    \A k \in 1..NumBlocks :
       LET b == Body(k)
           sh == WorkbookOf(k).sheets[1]
           cols == LinesOfKind(b, "col")
           prev == LinesOfKind(b, "preview") IN
       /\ FileState(k) = "success" => HasKind(b, "first5") /\ HasKind(b, "preview")
       /\ HasKind(b, "first5") =>
             [j \in DOMAIN cols |-> cols[j].strs[1]] = SheetHeader(sh)
       /\ HasKind(b, "preview") =>
             /\ Len(prev) = 1
             /\ Len(prev[1].rows) = Min(5, Len(SheetData(sh)))
             /\ prev[1].rows = SubSeq(SheetData(sh), 1, Len(prev[1].rows))
             /\ prev[1].strs = SheetHeader(sh)

C7_Witness ==
    /\ pc = "done"
    /\ NumBlocks = 2
    /\ FileState(1) = "success"
    /\ FileState(2) = "success"
    /\ Len(SheetData(WorkbookOf(1).sheets[1])) = 6
    /\ Len(LinesOfKind(Body(1), "preview")[1].rows) = 5
    /\ Len(SheetData(WorkbookOf(2).sheets[1])) = 4
    /\ Len(LinesOfKind(Body(2), "preview")[1].rows) = 4
    /\ Len(LinesOfKind(Body(1), "col")) = 2

(***************************************************************************)
(* C8: the size line gives the number of data rows (header excluded) and   *)
(* the number of columns of the source sheet at index 0, and these are the *)
(* dimensions of the loaded frame the column list and the preview are      *)
(* printed from.                                                           *)
(***************************************************************************)
C8_SizeIsFirstSheetDimensions ==
    \A k \in 1..NumBlocks :
       LET b == Body(k)
           sh == WorkbookOf(k).sheets[1]
           size == LinesOfKind(b, "size") IN
       /\ (WorkbookOf(k).readable /\ ~Unloadable(WorkbookOf(k))
             /\ (k < NumBlocks \/ pc \notin {"open", "read"}) => HasKind(b, "size"))
       /\ HasKind(b, "size") =>
          /\ Len(size) = 1
          /\ size[1].nums = <<Len(SheetData(sh)), Len(SheetHeader(sh))>>
          /\ (k = NumBlocks /\ pc \in {"columns", "preview", "dtypes"} =>
                size[1].nums = <<Len(df.rows), Len(df.columns)>>)
          /\ (HasKind(b, "first5") => CountKind(b, "col") = size[1].nums[2])
          /\ (HasKind(b, "preview") =>
                Len(LinesOfKind(b, "preview")[1].rows) = Min(5, size[1].nums[1]))

C8_Witness ==
    /\ pc = "dtypes"
    /\ NumBlocks = 2
    /\ Len(WorkbookOf(2).sheets) = 2
    /\ LinesOfKind(Body(2), "size")[1].nums = <<6, 1>>
    /\ Len(df.rows) = 6

(***************************************************************************)
(* C9: the output is a function of the listing and of the files' contents: *)
(* every block is the block its own entry's position, name and workbook    *)
(* determine, whatever was processed before it, so a second run over the   *)
(* same directory in the same order prints the same.                       *)
(***************************************************************************)
BodyOfWorkbook(wb) ==
    IF ~wb.readable
      THEN <<[kind |-> "error", nums |-> <<>>, strs |-> <<"Excel file format cannot be determined">>, rows |-> <<>>]>>
    ELSE
      LET names == [j \in DOMAIN wb.sheets |-> wb.sheets[j].name]
          first == <<[kind |-> "sheets", nums |-> <<>>, strs |-> names, rows |-> <<>>]>> IN
      IF wb.sheets = <<>>
        THEN first \o <<[kind |-> "error", nums |-> <<>>, strs |-> <<"Worksheet index 0 is invalid, 0 worksheets found">>, rows |-> <<>>]>>
      ELSE IF wb.sheets[1].damaged
        THEN first \o <<[kind |-> "error", nums |-> <<>>, strs |-> <<"File is not a zip file">>, rows |-> <<>>]>>
      ELSE
        LET hdr == SheetHeader(wb.sheets[1])
            dat == SheetData(wb.sheets[1])
            ty(c) == IF dat # <<>> /\ \A j \in DOMAIN dat : dat[j][c] \in Range(Digits)
                       THEN "int64" ELSE "object" IN
        first
        \o <<[kind |-> "size", nums |-> <<Len(dat), Len(hdr)>>, strs |-> <<>>, rows |-> <<>>],
             [kind |-> "columns", nums |-> <<>>, strs |-> <<>>, rows |-> <<>>]>>
        \o [c \in DOMAIN hdr |-> [kind |-> "col", nums |-> <<>>, strs |-> <<hdr[c]>>, rows |-> <<>>]]
        \o <<[kind |-> "first5", nums |-> <<>>, strs |-> <<>>, rows |-> <<>>],
             [kind |-> "preview", nums |-> <<>>, strs |-> hdr, rows |-> SubSeq(dat, 1, Min(5, Len(dat)))],
             [kind |-> "datatypes", nums |-> <<>>, strs |-> <<>>, rows |-> <<>>],
             [kind |-> "dtypes", nums |-> <<>>, strs |-> <<>>, rows |-> [c \in DOMAIN hdr |-> <<hdr[c], ty(c)>>]]>>

BlockOfEntry(k, nm, wb) ==
    <<[kind |-> "nlbanner", nums |-> <<>>, strs |-> <<>>, rows |-> <<>>],
      [kind |-> "header", nums |-> <<k>>, strs |-> <<nm>>, rows |-> <<>>],
      [kind |-> "banner", nums |-> <<>>, strs |-> <<>>, rows |-> <<>>]>>
    \o BodyOfWorkbook(wb)

RECURSIVE OutputOf(_, _, _)
OutputOf(listing, dir, n) ==
    IF n = 0 THEN <<>>
    ELSE OutputOf(listing, dir, n - 1) \o BlockOfEntry(n, listing[n], dir[listing[n]])

C9_OutputIsFunctionOfListingAndContents ==
    /\ \A k \in 1..NumBlocks :
          /\ IsPrefix(Body(k), BodyOfWorkbook(WorkbookOf(k)))
          /\ (Terminal(k) => Body(k) = BodyOfWorkbook(WorkbookOf(k)))
    /\ pc \in {"loop", "closing"} => out = OutputOf(files, disk, cursor)
    /\ pc = "done" =>
          out = OutputOf(files, disk, Len(files))
                \o <<[kind |-> "nlbanner", nums |-> <<>>, strs |-> <<>>, rows |-> <<>>],
                     [kind |-> "complete", nums |-> <<>>, strs |-> <<>>, rows |-> <<>>]>>

C9_Witness ==
    /\ pc = "done"
    /\ Len(files) = 2
    /\ ~Unloadable(WorkbookOf(1))
    /\ WorkbookOf(2).readable
    /\ Unloadable(WorkbookOf(2))
    /\ df.loaded
    /\ xl.opened
    /\ FileState(2) = "error"

(***************************************************************************)
(* C10: line by line, the body of a block is a prefix of the sequence      *)
(* sheet names, size, column list, preview, data types, then at most one   *)
(* error line; a finished block has the error line exactly when the prefix *)
(* is not the whole sequence; the error line is the last line of its       *)
(* block; no block holds both the data types and an error line.            *)
(***************************************************************************)
FullKinds(c) ==
    <<"sheets", "size", "columns">> \o [j \in 1..c |-> "col"]
    \o <<"first5", "preview", "datatypes", "dtypes">>

C10_BlockIsPrefixThenError ==
    \A k \in 1..NumBlocks :
       LET b == Body(k)
           good == SelectSeq(b, LAMBDA l : l.kind # "error")
           c == IF HasKind(b, "size") THEN LinesOfKind(b, "size")[1].nums[2] ELSE 0
           done == k < NumBlocks \/ pc \in {"loop", "closing", "done"} IN
       /\ IsPrefix(Kinds(good), FullKinds(c))
       /\ CountKind(b, "error") <= 1
       /\ (HasKind(b, "error") =>
              /\ b[Len(b)].kind = "error"
              /\ Kinds(good) # FullKinds(c)
              /\ ~HasKind(b, "dtypes"))
       /\ (done => (HasKind(b, "error") <=> Kinds(good) # FullKinds(c)))
       /\ (~done => ~HasKind(b, "error") \/ pc = "loop")

C10_Witness ==
    /\ pc = "done"
    /\ NumBlocks = 2
    /\ Kinds(Body(1)) = <<"sheets", "error">>
    /\ Kinds(Body(2)) = FullKinds(2)

=============================================================================
